---- MODULE Spec2Model ----
(***************************************************************************)
(* Model of the oxo serve_app API (src/src/ostorlab/serve_app/oxo.py) and  *)
(* of the risk rating aggregation of                                      *)
(* src/src/ostorlab/serve_app/export_utils.py.                            *)
(*                                                                         *)
(* The database tables are the variables; every GraphQL mutation is one   *)
(* action that models the whole handler.  The outcome of every call that  *)
(* leaves the process (the runtime, the agent store) is an input of the   *)
(* action.  resp holds the last request with what the caller received and *)
(* the calls that the handler made to the runtime.                        *)
(*                                                                         *)
(* The tracing mixin of an agent process                                   *)
(* (src/src/ostorlab/agent/mixins/agent_open_telemetry_mixin.py) is the    *)
(* specification SpecTrace: the construction of the agent, then the        *)
(* handling of messages by its worker threads, one step per entry to and   *)
(* exit from the handler.                                                  *)
(***************************************************************************)
EXTENDS Integers, Sequences, FiniteSets, TLC

\* ------------------------------------------------------------------ bounds
\* Scan ids are 1..MaxScans; one more id is used by requests as an unknown id.
MaxScans == 2
\* Asset ids are 1..MaxAssets; MaxAssets + 1 is never stored.
MaxAssets == 2
\* Longest asset_ids list of a runScan request.
MaxAssetIds == 2
\* The stored agent group holds the agents 1..MaxAgents.
MaxAgents == 2
\* Rows of the vulnerability table.
MaxVulns == 3
\* Longest assets list of a createAssets request.
MaxInputs == 2
\* Rows of the scan status table.
MaxStatuses == 2
\* Worker threads of one agent process.
MaxThreads == 2
\* Inbound messages delivered to the agent.
MaxMessages == 2
\* Most emit calls that the handlers of one agent process make in all.
MaxEmits == 1

ScanIds == 1..MaxScans
AssetIds == 1..MaxAssets

\* ---------------------------------------------------------- value domains
\* models.ScanProgress, as the spec's ScanState.
ScanProgress == {"NOT_STARTED", "IN_PROGRESS", "DONE", "STOPPED", "ERROR"}
\* No row with that id.
NoScan == "NONE"

\* common.RiskRatingEnum names, the keys of RISK_RATINGS_ORDER.
RiskRatingEnum ==
  {"CRITICAL", "HIGH", "MEDIUM", "LOW", "POTENTIALLY", "HARDENING", "SECURE",
   "IMPORTANT", "INFO"}

VARIABLES
  scans,            \* Scan table: id -> progress, NoScan when there is no row
  assets,           \* Asset table: the ids that have a row
  asset_scan_id,    \* Asset.scan_id of every row, 0 when NULL
  vulnerabilities,  \* Vulnerability table: rows [scan_id, risk_rating] in id order
  resp,             \* the last request, its inputs and what its caller received
  asset_type,       \* Asset.type of every row, "none" without a row
  scan_statuses,    \* ScanStatus table: rows [scan_id, key] in id order
  agent,            \* the agent process: its settings and what __init__ left
  files,            \* the file system: path -> the spans written to that file
  spans,            \* every span the tracer created, in creation order
  threads,          \* per worker thread: the message it handles, its current span
  messages          \* per inbound message: how far its processing got

apiVars == <<scans, assets, asset_scan_id, vulnerabilities, resp, asset_type,
            scan_statuses>>

tracingVars == <<agent, files, spans, threads, messages>>

vars == <<scans, assets, asset_scan_id, vulnerabilities, resp, asset_type,
          scan_statuses, agent, files, spans, threads, messages>>

\* ------------------------------------------------------------ helpers
Range(s) == {s[i] : i \in 1..Len(s)}

SeqsUpTo(S, n) == UNION {[1..k -> S] : k \in 0..n}

Max(S) == CHOOSE x \in S : \A y \in S : y <= x

Existing(sc) == {i \in DOMAIN sc : sc[i] # NoScan}

\* The types of the Asset rows that the database holds when the server
\* starts: odd ids are android_store assets, even ids network assets with two
\* networks.
StoredTypes(stored) ==
  [a \in AssetIds |->
     IF a \notin stored THEN "none"
     ELSE IF a % 2 = 1 THEN "android_store" ELSE "network"]

\* The outcomes of the calls of a request that does not reach the runtime.
NoEnv == [can_run |-> "True", install |-> "ok", agents |-> <<>>, scan |-> "ok"]

NoResp ==
  [op |-> "none", scan_id |-> 0, agent_group_id |-> 0, asset_ids |-> <<>>,
   env |-> NoEnv, loaded |-> NoScan, error |-> "", result |-> "none",
   scan |-> 0, calls |-> <<>>, scan_assets |-> <<>>, failed |-> <<>>,
   rating |-> "", deleted |-> 0, inputs |-> <<>>, errors |-> <<>>,
   created |-> <<>>]

\* An Optional[str]: None, or a string as the list of its tokens (the
\* separators ":" and "/" and the words between them).
None == [is_none |-> TRUE, value |-> <<>>]

Str(tokens) == [is_none |-> FALSE, value |-> tokens]

Threads == 1..MaxThreads

Messages == 1..MaxMessages

\* The files that exist; open(path, 'w') succeeds on those of Writable only.
Paths == {<<"/", "trace">>, <<"/", "ro">>}

Writable == {<<"/", "trace">>}

NoExporter == [kind |-> "none", agent_host_name |-> <<>>, agent_port |-> 0,
               file |-> <<>>]

NoMessage == [state |-> "queued", handler_calls |-> 0, handler_raised |-> FALSE,
              raised |-> FALSE, emit_calls |-> 0, publishes |-> 0,
              publish_raised |-> 0, emit_raised |-> 0]

\* No agent process runs: the state of the API server's specifications.
NoAgent ==
  /\ agent = [state |-> "none", settings |-> None, tracing_collector_url |-> None,
              exporter |-> NoExporter, error |-> ""]
  /\ files = [path \in Paths |-> <<>>]
  /\ spans = <<>>
  /\ threads = [t \in Threads |-> [msg |-> 0, context |-> 0]]
  /\ messages = [m \in Messages |-> NoMessage]

\* The response reaches the client; the server handles one request at a time.
Reply ==
  /\ resp.op # "none"
  /\ resp' = NoResp
  /\ UNCHANGED <<scans, assets, asset_scan_id, vulnerabilities>>
  /\ UNCHANGED tracingVars
  /\ UNCHANGED <<asset_type, scan_statuses>>

\* ================================================================ stopScan
\* LocalRuntime.stop, as the spec states it (4.5 stop): a scan IN_PROGRESS gets
\* the cancellation and becomes STOPPED, any other scan is left as it is.
LocalRuntime_stop(sc, scan_id) ==
  IF scan_id \in DOMAIN sc /\ sc[scan_id] = "IN_PROGRESS"
  THEN [sc EXCEPT ![scan_id] = "STOPPED"]
  ELSE sc

\* StopScanMutation.mutate without the call of line 413.
StopScanMutation_mutate_NoStop(scan_id, sc) ==
  LET scan == IF scan_id \in DOMAIN sc THEN sc[scan_id] ELSE NoScan IN
  IF scan = NoScan
  THEN [error |-> "Scan not found.", result |-> "error", scan |-> 0,
        loaded |-> scan, calls |-> <<>>, scans |-> sc]
  ELSE [error |-> "", result |-> "scan", scan |-> scan_id, loaded |-> scan,
        calls |-> <<>>, scans |-> sc]

\* StopScanMutation.mutate that stops every scan of the runtime.
StopScanMutation_mutate_StopAll(scan_id, sc) ==
  LET scan == IF scan_id \in DOMAIN sc THEN sc[scan_id] ELSE NoScan IN
  IF scan = NoScan
  THEN [error |-> "Scan not found.", result |-> "error", scan |-> 0,
        loaded |-> scan, calls |-> <<>>, scans |-> sc]
  ELSE [error |-> "", result |-> "scan", scan |-> scan_id, loaded |-> scan,
        calls |-> <<(<<"stop", scan_id>>)>>,
        scans |-> [id \in DOMAIN sc |->
                     IF sc[id] = "IN_PROGRESS" THEN "STOPPED" ELSE sc[id]]]

\* StopScanMutation.mutate that calls the runtime before it looks for the scan.
StopScanMutation_mutate_StopUnknown(scan_id, sc) ==
  LET scan == IF scan_id \in DOMAIN sc THEN sc[scan_id] ELSE NoScan IN
  IF scan = NoScan
  THEN [error |-> "Scan not found.", result |-> "error", scan |-> 0,
        loaded |-> scan, calls |-> <<(<<"stop", scan_id>>)>>, scans |-> sc]
  ELSE [error |-> "", result |-> "scan", scan |-> scan_id, loaded |-> scan,
        calls |-> <<(<<"stop", scan_id>>)>>,
        scans |-> LocalRuntime_stop(sc, scan_id)]

\* StopScanMutation.mutate: what the caller receives, the calls made to the
\* runtime and the Scan table afterwards.
StopScanMutation_mutate(scan_id, sc) ==
  LET scan == IF scan_id \in DOMAIN sc THEN sc[scan_id] ELSE NoScan IN
  IF scan = NoScan
  THEN [error |-> "Scan not found.", result |-> "error", scan |-> 0,
        loaded |-> scan, calls |-> <<>>, scans |-> sc]
  ELSE [error |-> "", result |-> "scan", scan |-> scan_id, loaded |-> scan,
        calls |-> <<(<<"stop", scan_id>>)>>,
        scans |-> LocalRuntime_stop(sc, scan_id)]

StopScan(scan_id) ==
  LET r == StopScanMutation_mutate(scan_id, scans) IN
  /\ scans' = r.scans
  /\ resp' = [NoResp EXCEPT !.op = "stopScan", !.scan_id = scan_id,
                            !.loaded = r.loaded, !.error = r.error,
                            !.result = r.result, !.scan = r.scan,
                            !.calls = r.calls]
  /\ UNCHANGED <<assets, asset_scan_id, vulnerabilities>>
  /\ UNCHANGED tracingVars
  /\ UNCHANGED <<asset_type, scan_statuses>>

\* The runtime's side of the scan state machine (spec 4.5): a scan IN_PROGRESS
\* ends DONE on the terminal signal of its agents, ERROR on a fault.
ScanEnds(scan_id, progress) ==
  /\ scan_id \in DOMAIN scans
  /\ scans[scan_id] = "IN_PROGRESS"
  /\ resp.op = "none"
  /\ scans' = [scans EXCEPT ![scan_id] = progress]
  /\ UNCHANGED <<assets, asset_scan_id, vulnerabilities, resp>>
  /\ UNCHANGED tracingVars
  /\ UNCHANGED <<asset_type, scan_statuses>>

\* The Scan table holds any rows when the server starts.
InitStop ==
  /\ NoAgent
  /\ scans \in [ScanIds -> ScanProgress \cup {NoScan}]
  /\ assets = {}
  /\ asset_scan_id = [a \in AssetIds |-> 0]
  /\ vulnerabilities = <<>>
  /\ resp = NoResp
  /\ asset_type = StoredTypes(assets)
  /\ scan_statuses = <<>>

StopScanRequest ==
  /\ resp.op = "none"
  /\ \E scan_id \in 1..(MaxScans + 1) : StopScan(scan_id)

ScanDone == \E scan_id \in ScanIds : ScanEnds(scan_id, "DONE")

ScanError == \E scan_id \in ScanIds : ScanEnds(scan_id, "ERROR")

NextStop == StopScanRequest \/ ScanDone \/ ScanError \/ Reply

SpecStop == InitStop /\ [][NextStop]_vars

\* C1: a stopScan that succeeds on a scan that was IN_PROGRESS leaves that scan
\* exactly STOPPED, never still IN_PROGRESS.
C1_StopLeavesStopped ==
  (resp.op = "stopScan" /\ resp.error = "" /\ resp.loaded = "IN_PROGRESS")
    => scans[resp.scan_id] = "STOPPED"

C1_Witness ==
  /\ resp.op = "stopScan"
  /\ resp.error = ""
  /\ resp.result = "scan"
  /\ resp.loaded = "IN_PROGRESS"
  /\ resp.calls = <<(<<"stop", resp.scan_id>>)>>
  /\ scans[resp.scan_id] = "STOPPED"

\* C2: a stopScan on an existing scan that is not IN_PROGRESS is a no-op: no
\* call reaches the runtime, the scan keeps its state and is returned.
C2_StopNotInProgressIsNoOp ==
  (resp.op = "stopScan" /\ resp.loaded \in ScanProgress \ {"IN_PROGRESS"})
    => /\ resp.calls = <<>>
       /\ scans[resp.scan_id] = resp.loaded
       /\ resp.error = ""
       /\ resp.scan = resp.scan_id

\* ================================================================= runScan
\* The AgentGroup table: one group, id 1, with the agents 1..MaxAgents in
\* list order (agent_group.agents); every other id is unknown.
AgentGroup == [g \in {1} |-> [i \in 1..MaxAgents |-> i]]

\* Asset.type of the row with that id.
AssetType(id) == asset_type[id]

\* The ids of S in ascending order, the order of the rows of a query.
RECURSIVE Ascending(_)
Ascending(S) ==
  IF S = {} THEN <<>>
  ELSE LET m == CHOOSE x \in S : \A y \in S : x <= y
       IN <<m>> \o Ascending(S \ {m})

\* The scan assets built for one Asset row (lines 551-626): one for a store
\* asset, one for each network of a network asset.
ScanAssetsOf(id) ==
  IF AssetType(id) = "network" THEN <<(<<id, 1>>), (<<id, 2>>)>>
  ELSE <<(<<id, 1>>)>>

RECURSIVE ScanAssetsOfRows(_)
ScanAssetsOfRows(rows) ==
  IF rows = <<>> THEN <<>>
  ELSE ScanAssetsOf(Head(rows)) \o ScanAssetsOfRows(Tail(rows))

\* RunScanMutation._prepare_agent_group.
RunScanMutation_prepare_agent_group(agent_group_id) ==
  IF agent_group_id \notin DOMAIN AgentGroup
  THEN [error |-> "Agent group not found.", agents |-> <<>>]
  ELSE [error |-> "", agents |-> AgentGroup[agent_group_id]]

\* _prepare_assets that loads one row for every id of the list, in list order.
RunScanMutation_prepare_assets_PerId(asset_ids, stored) ==
  LET rows == SelectSeq(asset_ids, LAMBDA a : a \in stored) IN
  IF Len(rows) = 0
  THEN [error |-> "Assets not found.", scan_assets |-> <<>>]
  ELSE [error |-> "", scan_assets |-> ScanAssetsOfRows(rows)]

\* RunScanMutation._prepare_assets: the rows whose id is IN asset_ids.
RunScanMutation_prepare_assets(asset_ids, stored) ==
  LET rows == Ascending({a \in stored : a \in Range(asset_ids)}) IN
  IF Len(rows) = 0
  THEN [error |-> "Assets not found.", scan_assets |-> <<>>]
  ELSE [error |-> "", scan_assets |-> ScanAssetsOfRows(rows)]

\* The outcome of install_agent.install for the i-th agent; a call that the
\* environment says nothing about succeeds.
AgentOutcome(outcomes, i) == IF i \in DOMAIN outcomes THEN outcomes[i] ELSE "ok"

\* The loop of lines 644-648 with the except clause around the loop instead
\* of inside it: the first agent that is not found ends the loop.
RECURSIVE InstallEachAgent_StopAtNotFound(_, _, _)
InstallEachAgent_StopAtNotFound(agents, outcomes, i) ==
  IF i > Len(agents) THEN [calls |-> <<>>, error |-> "", failed |-> <<>>]
  ELSE LET call == <<"install_agent", agents[i]>> IN
       IF AgentOutcome(outcomes, i) = "HTTPError"
       THEN [calls |-> <<call>>, error |-> "Could not install the agents",
             failed |-> <<>>]
       ELSE IF AgentOutcome(outcomes, i) = "AgentDetailsNotFound"
       THEN [calls |-> <<call>>, error |-> "", failed |-> <<>>]
       ELSE LET rest == InstallEachAgent_StopAtNotFound(agents, outcomes, i + 1)
            IN [rest EXCEPT !.calls = <<call>> \o rest.calls]

\* The loop of lines 644-648 from the i-th agent on.  AgentDetailsNotFound is
\* caught inside the loop, where the GraphQLError of line 648 is built and
\* dropped (it is not raised): nothing of it reaches the result.
RECURSIVE InstallEachAgent(_, _, _)
InstallEachAgent(agents, outcomes, i) ==
  IF i > Len(agents) THEN [calls |-> <<>>, error |-> "", failed |-> <<>>]
  ELSE LET call == <<"install_agent", agents[i]>> IN
       IF AgentOutcome(outcomes, i) = "HTTPError"
       THEN [calls |-> <<call>>, error |-> "Could not install the agents",
             failed |-> <<>>]
       ELSE LET rest == InstallEachAgent(agents, outcomes, i + 1)
            IN [rest EXCEPT !.calls = <<call>> \o rest.calls]

\* RunScanMutation._install_agents with the HTTP error logged instead of
\* raised again (line 650).
RunScanMutation_install_agents_Swallow(agents, env) ==
  IF env.install = "HTTPError"
  THEN [calls |-> <<(<<"install", 0>>)>>, error |-> "", failed |-> <<>>]
  ELSE LET loop == InstallEachAgent(agents, env.agents, 1)
       IN [loop EXCEPT !.calls = <<(<<"install", 0>>)>> \o loop.calls,
                       !.error = ""]

\* RunScanMutation._install_agents: the calls made, the error raised ("" when
\* it returns) and the agent keys it reports as failed.
RunScanMutation_install_agents(agents, env) ==
  IF env.install = "HTTPError"
  THEN [calls |-> <<(<<"install", 0>>)>>,
        error |-> "Could not install the agents", failed |-> <<>>]
  ELSE LET loop == InstallEachAgent(agents, env.agents, 1)
       IN [loop EXCEPT !.calls = <<(<<"install", 0>>)>> \o loop.calls]

\* The next id of the Scan table.
NewScanId(sc) == IF Existing(sc) = {} THEN 1 ELSE Max(Existing(sc)) + 1

\* LocalRuntime.scan, as the spec states it (4.5 start and its state machine):
\* it creates the scan record, IN_PROGRESS when the deployment succeeds and
\* ERROR when it fails with a runtime error.
LocalRuntime_scan(sc, outcome) ==
  LET id == NewScanId(sc) IN
  IF outcome = "ok"
  THEN [error |-> "", id |-> id, scans |-> [sc EXCEPT ![id] = "IN_PROGRESS"]]
  ELSE [error |-> "OstorlabError", id |-> 0,
        scans |-> [sc EXCEPT ![id] = "ERROR"]]

\* What a request that fails with a GraphQLError gives.
Raised(message, calls, db) ==
  [error |-> message, result |-> "error", scan |-> 0, calls |-> calls,
   scan_assets |-> <<>>, failed |-> <<>>, scans |-> db.scans,
   asset_scan_id |-> db.asset_scan_id]

\* Lines 683-707 without the loop of lines 697-698.
InstallAndScan_NoLink(scan, env, db, agent_group, prepared) ==
  LET can_run == <<(<<"can_run", 0>>)>>
      installed == RunScanMutation_install_agents(agent_group.agents, env)
      calls == can_run \o installed.calls
  IN
  IF installed.error # "" THEN Raised(installed.error, calls, db)
  ELSE LET created_scan == LocalRuntime_scan(db.scans, env.scan) IN
       IF created_scan.error # ""
       THEN [Raised("Runtime encountered an error to run scan",
                    calls \o <<(<<"scan", 0>>)>>, db)
               EXCEPT !.scans = created_scan.scans,
                      !.scan_assets = prepared.scan_assets]
       ELSE [error |-> "", result |-> "scan", scan |-> created_scan.id,
             calls |-> calls \o <<(<<"scan", 0>>)>>,
             scan_assets |-> prepared.scan_assets,
             failed |-> installed.failed,
             scans |-> created_scan.scans,
             asset_scan_id |->
               db.asset_scan_id]

\* Lines 683-707 with the assets linked to the next scan id before the
\* runtime's scan is called.
InstallAndScan_LinkBeforeScan(scan, env, db, agent_group, prepared) ==
  LET can_run == <<(<<"can_run", 0>>)>>
      installed == RunScanMutation_install_agents(agent_group.agents, env)
      calls == can_run \o installed.calls
  IN
  IF installed.error # "" THEN Raised(installed.error, calls, db)
  ELSE LET created_scan == LocalRuntime_scan(db.scans, env.scan) IN
       IF created_scan.error # ""
       THEN [Raised("Runtime encountered an error to run scan",
                    calls \o <<(<<"scan", 0>>)>>, db)
               EXCEPT !.scans = created_scan.scans,
                      !.scan_assets = prepared.scan_assets,
                      !.asset_scan_id =
                        [a \in AssetIds |->
                           IF a \in db.assets /\ a \in Range(scan.asset_ids)
                           THEN NewScanId(db.scans) ELSE db.asset_scan_id[a]]]
       ELSE [error |-> "", result |-> "scan", scan |-> created_scan.id,
             calls |-> calls \o <<(<<"scan", 0>>)>>,
             scan_assets |-> prepared.scan_assets,
             failed |-> installed.failed,
             scans |-> created_scan.scans,
             asset_scan_id |->
               [a \in AssetIds |->
                  IF a \in db.assets /\ a \in Range(scan.asset_ids)
                  THEN created_scan.id ELSE db.asset_scan_id[a]]]

\* Lines 683-707 with the link of an asset made only when it has none.
InstallAndScan_KeepFirstLink(scan, env, db, agent_group, prepared) ==
  LET can_run == <<(<<"can_run", 0>>)>>
      installed == RunScanMutation_install_agents(agent_group.agents, env)
      calls == can_run \o installed.calls
  IN
  IF installed.error # "" THEN Raised(installed.error, calls, db)
  ELSE LET created_scan == LocalRuntime_scan(db.scans, env.scan) IN
       IF created_scan.error # ""
       THEN [Raised("Runtime encountered an error to run scan",
                    calls \o <<(<<"scan", 0>>)>>, db)
               EXCEPT !.scans = created_scan.scans,
                      !.scan_assets = prepared.scan_assets]
       ELSE [error |-> "", result |-> "scan", scan |-> created_scan.id,
             calls |-> calls \o <<(<<"scan", 0>>)>>,
             scan_assets |-> prepared.scan_assets,
             failed |-> installed.failed,
             scans |-> created_scan.scans,
             asset_scan_id |->
               [a \in AssetIds |->
                  IF a \in db.assets /\ a \in Range(scan.asset_ids)
                     /\ db.asset_scan_id[a] = 0
                  THEN created_scan.id ELSE db.asset_scan_id[a]]]

\* Lines 683-707 of RunScanMutation.mutate, taken when can_run returned True:
\* the install, the runtime's scan, the link of the assets to the created scan.
InstallAndScan(scan, env, db, agent_group, prepared) ==
  LET can_run == <<(<<"can_run", 0>>)>>
      installed == RunScanMutation_install_agents(agent_group.agents, env)
      calls == can_run \o installed.calls
  IN
  IF installed.error # "" THEN Raised(installed.error, calls, db)
  ELSE LET created_scan == LocalRuntime_scan(db.scans, env.scan) IN
       IF created_scan.error # ""
       THEN [Raised("Runtime encountered an error to run scan",
                    calls \o <<(<<"scan", 0>>)>>, db)
               EXCEPT !.scans = created_scan.scans,
                      !.scan_assets = prepared.scan_assets]
       ELSE [error |-> "", result |-> "scan", scan |-> created_scan.id,
             calls |-> calls \o <<(<<"scan", 0>>)>>,
             scan_assets |-> prepared.scan_assets,
             failed |-> installed.failed,
             scans |-> created_scan.scans,
             asset_scan_id |->
               [a \in AssetIds |->
                  IF a \in db.assets /\ a \in Range(scan.asset_ids)
                  THEN created_scan.id ELSE db.asset_scan_id[a]]]

\* RunScanMutation.mutate with the assets prepared before the agent group.
RunScanMutation_mutate_AssetsFirst(scan, env, db) ==
  LET agent_group == RunScanMutation_prepare_agent_group(scan.agent_group_id)
      prepared == RunScanMutation_prepare_assets(scan.asset_ids, db.assets)
  IN
  IF prepared.error # "" THEN Raised(prepared.error, <<>>, db)
  ELSE IF agent_group.error # "" THEN Raised(agent_group.error, <<>>, db)
  ELSE IF env.can_run = "OstorlabError"
  THEN Raised("Runtime encountered an error to run scan",
              <<(<<"can_run", 0>>)>>, db)
  ELSE IF env.can_run = "True"
  THEN InstallAndScan(scan, env, db, agent_group, prepared)
  ELSE [error |-> "", result |-> "None", scan |-> 0,
        calls |-> <<(<<"can_run", 0>>)>>, scan_assets |-> <<>>,
        failed |-> <<>>, scans |-> db.scans,
        asset_scan_id |-> db.asset_scan_id]

\* RunScanMutation.mutate with the test of line 682 left out.
RunScanMutation_mutate_AnyCanRun(scan, env, db) ==
  LET agent_group == RunScanMutation_prepare_agent_group(scan.agent_group_id)
      prepared == RunScanMutation_prepare_assets(scan.asset_ids, db.assets)
  IN
  IF agent_group.error # "" THEN Raised(agent_group.error, <<>>, db)
  ELSE IF prepared.error # "" THEN Raised(prepared.error, <<>>, db)
  ELSE IF env.can_run = "OstorlabError"
  THEN Raised("Runtime encountered an error to run scan",
              <<(<<"can_run", 0>>)>>, db)
  ELSE InstallAndScan(scan, env, db, agent_group, prepared)

\* RunScanMutation.mutate on the request scan = [agent_group_id, asset_ids],
\* with env the outcomes of the calls to the runtime and the agent store and
\* db the tables.
RunScanMutation_mutate(scan, env, db) ==
  LET agent_group == RunScanMutation_prepare_agent_group(scan.agent_group_id)
      prepared == RunScanMutation_prepare_assets(scan.asset_ids, db.assets)
  IN
  IF agent_group.error # "" THEN Raised(agent_group.error, <<>>, db)
  ELSE IF prepared.error # "" THEN Raised(prepared.error, <<>>, db)
  ELSE IF env.can_run = "OstorlabError"
  THEN Raised("Runtime encountered an error to run scan",
              <<(<<"can_run", 0>>)>>, db)
  ELSE IF env.can_run = "True"
  THEN InstallAndScan(scan, env, db, agent_group, prepared)
  \* can_run returned False: mutate ends without a return statement
  ELSE [error |-> "", result |-> "None", scan |-> 0,
        calls |-> <<(<<"can_run", 0>>)>>, scan_assets |-> <<>>,
        failed |-> <<>>, scans |-> db.scans,
        asset_scan_id |-> db.asset_scan_id]

\* The outcomes of the calls of one request.  A call that the handler does not
\* make has no outcome to tell apart, so it is left at success: nothing after
\* a can_run that does not return True, nothing after an HTTP error.
DefaultEnv ==
  [can_run |-> "True", install |-> "ok", agents |-> [i \in 1..MaxAgents |-> "ok"],
   scan |-> "ok"]

Environments ==
  {e \in [can_run : {"True", "False", "OstorlabError"},
          install : {"ok", "HTTPError"},
          agents : [1..MaxAgents -> {"ok", "AgentDetailsNotFound", "HTTPError"}],
          scan : {"ok", "OstorlabError"}] :
     LET quiet(i) == (\A j \in i..MaxAgents : e.agents[j] = "ok") /\ e.scan = "ok"
     IN /\ e.can_run # "True" => e.install = "ok" /\ quiet(1)
        /\ e.install = "HTTPError" => quiet(1)
        /\ \A i \in 1..MaxAgents : e.agents[i] = "HTTPError" => quiet(i + 1)}

RunScan(agent_group_id, asset_ids, env) ==
  LET r == RunScanMutation_mutate(
             [agent_group_id |-> agent_group_id, asset_ids |-> asset_ids], env,
             [scans |-> scans, assets |-> assets,
              asset_scan_id |-> asset_scan_id])
  IN
  /\ scans' = r.scans
  /\ asset_scan_id' = r.asset_scan_id
  /\ resp' = [NoResp EXCEPT !.op = "runScan",
                            !.agent_group_id = agent_group_id,
                            !.asset_ids = asset_ids, !.env = env,
                            !.error = r.error, !.result = r.result,
                            !.scan = r.scan, !.calls = r.calls,
                            !.scan_assets = r.scan_assets,
                            !.failed = r.failed]
  /\ UNCHANGED <<assets, vulnerabilities>>
  /\ UNCHANGED tracingVars
  /\ UNCHANGED <<asset_type, scan_statuses>>

\* An empty Scan table, the Asset rows 1..MaxAssets, none linked to a scan.
Init ==
  /\ NoAgent
  /\ scans = [i \in ScanIds |-> NoScan]
  /\ assets = AssetIds
  /\ asset_scan_id = [a \in AssetIds |-> 0]
  /\ vulnerabilities = <<>>
  /\ resp = NoResp
  /\ asset_type = StoredTypes(assets)
  /\ scan_statuses = <<>>

\* A request that names an unknown agent group or no stored asset is rejected
\* before the handler calls anything: it has no outcomes to draw.
RunScanRequest ==
  /\ resp.op = "none"
  \* the Scan table has room for the record that the runtime creates
  /\ NewScanId(scans) <= MaxScans
  /\ \E agent_group_id \in 1..2 :
       \E asset_ids \in SeqsUpTo(1..(MaxAssets + 1), MaxAssetIds) :
         \E env \in IF agent_group_id \in DOMAIN AgentGroup
                       /\ Range(asset_ids) \cap assets # {}
                    THEN Environments ELSE {DefaultEnv} :
           RunScan(agent_group_id, asset_ids, env)

Next == RunScanRequest \/ Reply

Spec == Init /\ [][Next]_vars

\* The calls with which a runScan installs the agents 1..n, in list order.
InstallCalls(n) == [i \in 1..n |-> <<"install_agent", AgentGroup[1][i]>>]

\* The number of agents whose install was attempted by the last request.
Attempted == Cardinality({i \in DOMAIN resp.calls : resp.calls[i][1] = "install_agent"})

\* C3: runScan calls the runtime in the order can_run, install (the runtime's
\* install, then the agents' installs in list order), scan; nothing is
\* installed or scanned unless can_run returned True.
C3_CanRunThenInstallThenScan ==
  resp.op = "runScan" =>
    LET c == resp.calls IN
    \/ c = <<>>
    \/ c = <<(<<"can_run", 0>>)>>
    \/ /\ resp.env.can_run = "True"
       /\ \E n \in 0..MaxAgents :
            \/ c = <<(<<"can_run", 0>>), (<<"install", 0>>)>> \o InstallCalls(n)
            \/ /\ n = MaxAgents
               /\ c = <<(<<"can_run", 0>>), (<<"install", 0>>)>>
                        \o InstallCalls(n) \o <<(<<"scan", 0>>)>>

C3_Witness ==
  /\ resp.op = "runScan"
  /\ resp.env.can_run = "True"
  /\ resp.calls = <<(<<"can_run", 0>>), (<<"install", 0>>)>>
                    \o InstallCalls(MaxAgents) \o <<(<<"scan", 0>>)>>
  /\ resp.result = "scan"

\* C4: a runScan whose feasibility check fails, by an error of can_run or by
\* can_run returning False, gives its caller an error.
C4_InfeasibleGivesError ==
  (resp.op = "runScan" /\ resp.calls # <<>> /\ resp.env.can_run # "True")
    => resp.error # ""

\* C5: the key of an agent whose install fails because the agent is not found
\* on the store reaches the caller of runScan, in the error or in the list of
\* failed agent keys.
C5_NotFoundAgentSurfaced ==
  resp.op = "runScan" =>
    \A i \in 1..Attempted :
      resp.env.agents[i] = "AgentDetailsNotFound"
        => \/ AgentGroup[1][i] \in Range(resp.failed)
           \/ resp.error = "Agent not found on the store."

\* C6: an agent that is not found on the store does not end the install: every
\* agent of the group is attempted, in list order, as long as no HTTP error
\* is met.
C6_NotFoundDoesNotAbort ==
  (/\ resp.op = "runScan"
   /\ Len(resp.calls) >= 2
   /\ resp.env.install = "ok")
    => \A i \in 1..MaxAgents :
         (\A j \in 1..(i - 1) : resp.env.agents[j] # "HTTPError")
           => /\ Len(resp.calls) >= 2 + i
              /\ resp.calls[2 + i] = <<"install_agent", AgentGroup[1][i]>>

C6_Witness ==
  /\ resp.op = "runScan"
  /\ resp.env.agents[1] = "AgentDetailsNotFound"
  /\ Attempted = MaxAgents
  /\ resp.calls[2 + MaxAgents] = <<"install_agent", AgentGroup[1][MaxAgents]>>

\* The install of the last request met an HTTP error.
InstallHTTPError ==
  /\ resp.op = "runScan"
  /\ Len(resp.calls) >= 2
  /\ \/ resp.env.install = "HTTPError"
     \/ \E i \in 1..Attempted : resp.env.agents[i] = "HTTPError"

\* C7: an HTTP error of the runtime's install or of an agent's install fails
\* the whole install with an error to the caller; the call that met it is the
\* last call of the request, so no further agent is installed and no scan is
\* started.
C7_HTTPErrorIsFatal ==
  InstallHTTPError =>
    /\ resp.error = "Could not install the agents"
    /\ resp.result = "error"
    /\ resp.scan = 0
    /\ \A i \in DOMAIN resp.calls : resp.calls[i][1] # "scan"
    /\ resp.env.install = "HTTPError" => Attempted = 0
    /\ resp.env.install = "ok" => resp.env.agents[Attempted] = "HTTPError"

C7_Witness ==
  /\ InstallHTTPError
  /\ resp.env.install = "ok"
  /\ resp.env.agents[1] = "HTTPError"
  /\ Attempted = 1
  /\ resp.error = "Could not install the agents"

\* ============================================================= risk rating
\* RISK_RATINGS_ORDER, export_utils.py lines 16-26.
RISK_RATINGS_ORDER ==
  ("CRITICAL" :> 8) @@ ("HIGH" :> 7) @@ ("MEDIUM" :> 6) @@ ("LOW" :> 5)
    @@ ("POTENTIALLY" :> 4) @@ ("HARDENING" :> 3) @@ ("SECURE" :> 2)
    @@ ("IMPORTANT" :> 1) @@ ("INFO" :> 0)

\* str.lower on the name of a rating (line 237).
Lower ==
  ("CRITICAL" :> "critical") @@ ("HIGH" :> "high") @@ ("MEDIUM" :> "medium")
    @@ ("LOW" :> "low") @@ ("POTENTIALLY" :> "potentially")
    @@ ("HARDENING" :> "hardening") @@ ("SECURE" :> "secure")
    @@ ("IMPORTANT" :> "important") @@ ("INFO" :> "info")

\* The place of each rating name in the lexical order of the names.
LexicalOrder ==
  ("CRITICAL" :> 0) @@ ("HARDENING" :> 1) @@ ("HIGH" :> 2) @@ ("IMPORTANT" :> 3)
    @@ ("INFO" :> 4) @@ ("LOW" :> 5) @@ ("MEDIUM" :> 6) @@ ("POTENTIALLY" :> 7)
    @@ ("SECURE" :> 8)

\* query.distinct(risk_rating).all() (lines 226-228): the first row of each
\* risk rating.  (A backend without DISTINCT ON gives every row; the ratings
\* that occur are the same.)
RECURSIVE DistinctOnRiskRating(_, _)
DistinctOnRiskRating(rows, seen) ==
  IF rows = <<>> THEN <<>>
  ELSE IF Head(rows).risk_rating \in seen
  THEN DistinctOnRiskRating(Tail(rows), seen)
  ELSE <<Head(rows)>>
         \o DistinctOnRiskRating(Tail(rows), seen \cup {Head(rows).risk_rating})

\* max(rows, key) on a list that is not empty, as Python computes it: the
\* first row whose key no other row exceeds.
RECURSIVE PyMaxFrom(_, _, _, _)
PyMaxFrom(rows, key, best, i) ==
  IF i > Len(rows) THEN best
  ELSE PyMaxFrom(rows, key,
                 IF key[rows[i].risk_rating] > key[best.risk_rating]
                 THEN rows[i] ELSE best,
                 i + 1)

\* max without its key: the rows compare by the name of their rating.
PyMax_ByName(rows, key) == PyMaxFrom(rows, LexicalOrder, rows[1], 2)

\* max that stops at the first row.
PyMax_First(rows, key) == rows[1]

PyMax(rows, key) == PyMaxFrom(rows, key, rows[1], 2)

\* VulnerabilitiesOf without the filter of line 224: the rows of every scan.
VulnerabilitiesOf_AllScans(scan_id, vulns) == vulns

\* The rows of the Vulnerability table with that scan_id (lines 223-225).
VulnerabilitiesOf(scan_id, vulns) ==
  SelectSeq(vulns, LAMBDA row : row.scan_id = scan_id)

\* _compute_risk_rating with INFO as the rating of a scan without
\* vulnerabilities.
_compute_risk_rating_EmptyIsInfo(scan_id, sc, vulns) ==
  IF scan_id \notin DOMAIN sc \/ sc[scan_id] = NoScan THEN "unknown"
  ELSE LET distinct_vulnz ==
             DistinctOnRiskRating(VulnerabilitiesOf(scan_id, vulns), {})
       IN IF Len(distinct_vulnz) = 0 THEN Lower["INFO"]
          ELSE Lower[PyMax(distinct_vulnz, RISK_RATINGS_ORDER).risk_rating]

\* _compute_risk_rating, export_utils.py lines 211-238.
_compute_risk_rating(scan_id, sc, vulns) ==
  IF scan_id \notin DOMAIN sc \/ sc[scan_id] = NoScan THEN "unknown"
  ELSE LET distinct_vulnz ==
             DistinctOnRiskRating(VulnerabilitiesOf(scan_id, vulns), {})
       IN IF Len(distinct_vulnz) = 0 THEN "unknown"
          ELSE LET vuln_highest_risk == PyMax(distinct_vulnz, RISK_RATINGS_ORDER)
               IN Lower[vuln_highest_risk.risk_rating]

\* The export of a scan computes its risk rating (export_utils.py line 150).
ComputeRiskRating(scan_id) ==
  /\ resp' = [NoResp EXCEPT !.op = "riskRating", !.scan_id = scan_id,
                            !.rating = _compute_risk_rating(
                                         scan_id, scans, vulnerabilities)]
  /\ UNCHANGED <<scans, assets, asset_scan_id, vulnerabilities>>
  /\ UNCHANGED tracingVars
  /\ UNCHANGED <<asset_type, scan_statuses>>

\* An agent of the scan reports a vulnerability: a row is added to the
\* Vulnerability table (spec 6, append-vulnerability).
AddVulnerability(scan_id, risk_rating) ==
  /\ Len(vulnerabilities) < MaxVulns
  /\ vulnerabilities' =
       Append(vulnerabilities, [scan_id |-> scan_id, risk_rating |-> risk_rating])
  /\ UNCHANGED <<scans, assets, asset_scan_id, resp>>
  /\ UNCHANGED tracingVars
  /\ UNCHANGED <<asset_type, scan_statuses>>

\* The rows of a table that are not of that scan: what
\* query.filter_by(scan_id=scan_id).delete() leaves.
RowsNotOf(rows, scan_id) == SelectSeq(rows, LAMBDA row : row.scan_id # scan_id)

\* DeleteScanMutation.mutate without the delete of line 284.
DeleteScanMutation_mutate_KeepStatuses(scan_id, sc, vulns, statuses) ==
  IF scan_id \notin DOMAIN sc \/ sc[scan_id] = NoScan
  THEN [error |-> "Scan not found.", result |-> "error", scans |-> sc,
        vulnerabilities |-> vulns, scan_statuses |-> statuses, deleted |-> 0]
  ELSE [error |-> "", result |-> "True",
        scans |-> [sc EXCEPT ![scan_id] = NoScan],
        vulnerabilities |-> RowsNotOf(vulns, scan_id),
        scan_statuses |-> statuses,
        deleted |-> 1 + (Len(vulns) - Len(RowsNotOf(vulns, scan_id)))]

\* DeleteScanMutation.mutate without the test of lines 280-281.
DeleteScanMutation_mutate_IgnoreMissing(scan_id, sc, vulns, statuses) ==
  [error |-> "", result |-> "True",
   scans |-> [id \in DOMAIN sc |-> IF id = scan_id THEN NoScan ELSE sc[id]],
   vulnerabilities |-> RowsNotOf(vulns, scan_id),
   scan_statuses |-> RowsNotOf(statuses, scan_id),
   deleted |-> 0]

\* DeleteScanMutation.mutate, oxo.py lines 278-286: an id without a Scan row
\* raises "Scan not found."; otherwise the row of the scan, the rows of its
\* vulnerabilities and the rows of its scan statuses are deleted.  deleted is
\* the number of rows that the three delete() calls removed.
DeleteScanMutation_mutate(scan_id, sc, vulns, statuses) ==
  IF scan_id \notin DOMAIN sc \/ sc[scan_id] = NoScan
  THEN [error |-> "Scan not found.", result |-> "error", scans |-> sc,
        vulnerabilities |-> vulns, scan_statuses |-> statuses, deleted |-> 0]
  ELSE [error |-> "", result |-> "True",
        scans |-> [sc EXCEPT ![scan_id] = NoScan],
        vulnerabilities |-> RowsNotOf(vulns, scan_id),
        scan_statuses |-> RowsNotOf(statuses, scan_id),
        deleted |-> 1 + (Len(vulns) - Len(RowsNotOf(vulns, scan_id)))
                      + (Len(statuses) - Len(RowsNotOf(statuses, scan_id)))]

DeleteScan(scan_id) ==
  LET r == DeleteScanMutation_mutate(scan_id, scans, vulnerabilities,
                                     scan_statuses) IN
  /\ scans' = r.scans
  /\ vulnerabilities' = r.vulnerabilities
  /\ scan_statuses' = r.scan_statuses
  /\ resp' = [NoResp EXCEPT !.op = "deleteScan", !.scan_id = scan_id,
                            !.error = r.error, !.result = r.result,
                            !.deleted = r.deleted]
  /\ UNCHANGED <<assets, asset_scan_id, asset_type>>
  /\ UNCHANGED tracingVars

\* The scans that the database holds when the server starts.
StoredScans == {1, 2}

InitRisk ==
  /\ NoAgent
  /\ scans = [i \in ScanIds |-> IF i \in StoredScans THEN "IN_PROGRESS" ELSE NoScan]
  /\ assets = {}
  /\ asset_scan_id = [a \in AssetIds |-> 0]
  /\ vulnerabilities = <<>>
  /\ resp = NoResp
  /\ asset_type = StoredTypes(assets)
  /\ scan_statuses = <<>>

RiskRatingRequest ==
  /\ resp.op = "none"
  /\ \E scan_id \in 1..(MaxScans + 1) : ComputeRiskRating(scan_id)

VulnerabilityReported ==
  /\ resp.op = "none"
  /\ \E scan_id \in Existing(scans), risk_rating \in RiskRatingEnum :
       AddVulnerability(scan_id, risk_rating)

DeleteScanRequest ==
  /\ resp.op = "none"
  /\ \E scan_id \in 1..(MaxScans + 1) : DeleteScan(scan_id)

NextRisk ==
  RiskRatingRequest \/ VulnerabilityReported \/ DeleteScanRequest \/ Reply

SpecRisk == InitRisk /\ [][NextRisk]_vars

\* The ratings of the vulnerabilities stored for the scan of the last request.
Reported == {row.risk_rating : row \in Range(VulnerabilitiesOf(resp.scan_id, vulnerabilities))}

\* The rank table as the claim states it, lowest first.
ClaimedRanks ==
  <<"INFO", "IMPORTANT", "SECURE", "HARDENING", "POTENTIALLY", "LOW", "MEDIUM",
    "HIGH", "CRITICAL">>

ClaimedRank(r) == CHOOSE i \in DOMAIN ClaimedRanks : ClaimedRanks[i] = r

\* The last request computed the risk rating of a stored scan.
RatedStoredScan ==
  /\ resp.op = "riskRating"
  /\ resp.scan_id \in Existing(scans)

\* C8: the risk rating of a scan with vulnerabilities is the rating of highest
\* rank among theirs, by the table INFO < IMPORTANT < SECURE < HARDENING <
\* POTENTIALLY < LOW < MEDIUM < HIGH < CRITICAL, whatever the lexical order of
\* the names.
C8_AggregateIsMaxRank ==
  (RatedStoredScan /\ Reported # {}) =>
    /\ \E r \in Reported :
         /\ resp.rating = Lower[r]
         /\ \A q \in Reported \ {r} : ClaimedRank(q) < ClaimedRank(r)
    /\ \A i, j \in DOMAIN ClaimedRanks :
         i < j => RISK_RATINGS_ORDER[ClaimedRanks[i]] < RISK_RATINGS_ORDER[ClaimedRanks[j]]

\* A scan whose highest rating is not the last of its ratings in lexical order.
C8_Witness ==
  /\ RatedStoredScan
  /\ Cardinality(Reported) >= 2
  /\ \E r \in Reported, l \in Reported :
       /\ r # l
       /\ \A q \in Reported : LexicalOrder[q] <= LexicalOrder[l]
       /\ \A q \in Reported : ClaimedRank(q) <= ClaimedRank(r)
       /\ resp.rating = Lower[r]

\* C9: a scan has the rating "unknown", which is no defined rating, exactly
\* when it has no vulnerability.
C9_UnknownIffNoVulnerability ==
  RatedStoredScan =>
    /\ (Reported = {}) <=> (resp.rating = "unknown")
    /\ \A r \in RiskRatingEnum : Lower[r] # "unknown"

C9_Witness ==
  /\ RatedStoredScan
  /\ Reported = {}
  /\ vulnerabilities # <<>>
  /\ resp.rating = "unknown"
  /\ resp.rating # Lower["INFO"]

\* The Vulnerability table with only the rows ratings, in that order, for a scan.
RowsOf(scan_id, ratings) ==
  [i \in DOMAIN ratings |-> [scan_id |-> scan_id, risk_rating |-> ratings[i]]]

\* C10: the risk rating is the same for every order and every repetition of
\* the reported ratings: any list with the same set of ratings gives it.
C10_OrderAndDuplicatesIrrelevant ==
  RatedStoredScan =>
    \A ratings \in SeqsUpTo(Reported, MaxVulns) :
      Range(ratings) = Reported =>
        _compute_risk_rating(resp.scan_id, scans, RowsOf(resp.scan_id, ratings))
          = resp.rating

\* A scan whose highest rating was reported last, after a rating reported
\* twice.
C10_Witness ==
  /\ RatedStoredScan
  /\ LET rows == VulnerabilitiesOf(resp.scan_id, vulnerabilities) IN
     /\ Len(rows) = MaxVulns
     /\ Cardinality(Reported) = 2
     /\ rows[1].risk_rating = rows[2].risk_rating
     /\ ClaimedRank(rows[1].risk_rating) < ClaimedRank(rows[MaxVulns].risk_rating)
     /\ resp.rating = Lower[rows[MaxVulns].risk_rating]

\* The ratings in the rows that the Vulnerability table holds now for the scan
\* of the last request.
StoredNow ==
  {vulnerabilities[i].risk_rating :
     i \in {j \in DOMAIN vulnerabilities :
              vulnerabilities[j].scan_id = resp.scan_id}}

\* C11: after any sequence of reported vulnerabilities and deleted scans, the
\* risk rating computed for a scan is the rating of highest rank among the
\* rows stored for that scan at that time, "unknown" when there is none or
\* when the scan has no row; nothing else takes part in it.
C11_RatingDerivedFromStoredRows ==
  resp.op = "riskRating" =>
    resp.rating =
      IF resp.scan_id \notin Existing(scans) \/ StoredNow = {} THEN "unknown"
      ELSE Lower[CHOOSE r \in StoredNow :
                   \A q \in StoredNow :
                     RISK_RATINGS_ORDER[q] <= RISK_RATINGS_ORDER[r]]

\* The rating of a scan with rows of two ratings, computed after another scan
\* was deleted with its rows.
C11_Witness ==
  /\ resp.op = "riskRating"
  /\ resp.scan_id \in Existing(scans)
  /\ \E gone \in StoredScans : scans[gone] = NoScan
  /\ Cardinality(StoredNow) >= 2
  /\ resp.rating # "unknown"

\* ================================================================= tracing
\* agent_open_telemetry_mixin.py.  A string is the list of its tokens: the
\* separators ":" and "/" and the words between them.  The words are made of
\* letters, digits, "-" and ".", all of them characters of a url scheme.
Separators == {":", "/"}

\* The words whose first character is an ASCII letter.
StartsWithLetter ==
  {"jaeger", "file", "FILE", "zipkin", "jaeger-host", "trace", "ro"}

\* str.lower on a word.
str_lower ==
  ("jaeger" :> "jaeger") @@ ("file" :> "file") @@ ("FILE" :> "file")
    @@ ("zipkin" :> "zipkin") @@ ("jaeger-host" :> "jaeger-host")
    @@ ("trace" :> "trace") @@ ("ro" :> "ro")

\* int on a word: the words of decimal digits have a value, the others raise
\* ValueError.
int == ("8631" :> 8631)

\* str.find: the first place of the token, 0 when it does not occur.
Find(tokens, c) ==
  IF c \in Range(tokens)
  THEN CHOOSE i \in DOMAIN tokens :
         tokens[i] = c /\ \A j \in 1..(i - 1) : tokens[j] # c
  ELSE 0

\* str.split(":"): the pieces between the colons, one piece when there is none.
RECURSIVE Split(_)
Split(tokens) ==
  LET i == Find(tokens, ":") IN
  IF i = 0 THEN <<tokens>>
  ELSE <<SubSeq(tokens, 1, i - 1)>> \o Split(SubSeq(tokens, i + 1, Len(tokens)))

\* urllib.parse.urlparse (line 42): the scheme is the text before the first
\* ":" when that text starts with a letter and holds scheme characters only,
\* lower-cased; the netloc is read only after "//" and ends at the next "/";
\* the rest is the path.
urlparse(url) ==
  LET i == Find(url, ":")
      has_scheme == i = 2 /\ url[1] \notin Separators /\ url[1] \in StartsWithLetter
      scheme == IF has_scheme THEN str_lower[url[1]] ELSE ""
      rest == IF has_scheme THEN SubSeq(url, 3, Len(url)) ELSE url
      has_netloc == Len(rest) >= 2 /\ rest[1] = "/" /\ rest[2] = "/"
      after == IF has_netloc THEN SubSeq(rest, 3, Len(rest)) ELSE rest
      slash == Find(after, "/")
  IN [scheme |-> scheme,
      netloc |-> IF ~has_netloc THEN <<>>
                 ELSE IF slash = 0 THEN after
                 ELSE SubSeq(after, 1, slash - 1),
      path |-> IF ~has_netloc THEN rest
               ELSE IF slash = 0 THEN <<>>
               ELSE SubSeq(after, slash, Len(after))]

\* The outcome of a call: the exception raised ("" when none), the exporter
\* returned and the file system afterwards.
Outcome(raised, exporter, fs) ==
  [raised |-> raised, exporter |-> exporter, files |-> fs]

\* TraceExporter._get_file_exporter (lines 51-56): open(file_path, 'w') empties
\* the file, or raises OSError when the path cannot be opened for writing.
TraceExporter_get_file_exporter(parsed_url, fs) ==
  LET file_path == parsed_url.path IN
  IF file_path \notin Writable THEN Outcome("OSError", NoExporter, fs)
  ELSE Outcome("", [NoExporter EXCEPT !.kind = "file", !.file = file_path],
               [fs EXCEPT ![file_path] = <<>>])

\* TraceExporter._get_jaeger_exporter (lines 58-67).
TraceExporter_get_jaeger_exporter(parsed_url, fs) ==
  LET netloc == parsed_url.netloc
      parts == Split(netloc)
  IN IF Len(parts) < 2 THEN Outcome("IndexError", NoExporter, fs)
     ELSE IF Len(parts[2]) # 1 \/ parts[2][1] \notin DOMAIN int
     THEN Outcome("ValueError", NoExporter, fs)
     ELSE Outcome("", [NoExporter EXCEPT !.kind = "jaeger",
                                         !.agent_host_name = parts[1],
                                         !.agent_port = int[parts[2][1]]],
                  fs)

\* get_trace_exporter that returns no exporter for a scheme it does not know.
TraceExporter_get_trace_exporter_NoRaise(tracing_collector_url, fs) ==
  LET parsed_url == urlparse(tracing_collector_url)
      scheme == parsed_url.scheme
  IN IF scheme = "jaeger" THEN TraceExporter_get_jaeger_exporter(parsed_url, fs)
     ELSE IF scheme = "file" THEN TraceExporter_get_file_exporter(parsed_url, fs)
     ELSE Outcome("", NoExporter, fs)

\* TraceExporter.get_trace_exporter (lines 35-49).
TraceExporter_get_trace_exporter(tracing_collector_url, fs) ==
  LET parsed_url == urlparse(tracing_collector_url)
      scheme == parsed_url.scheme
  IN IF scheme = "jaeger" THEN TraceExporter_get_jaeger_exporter(parsed_url, fs)
     ELSE IF scheme = "file" THEN TraceExporter_get_file_exporter(parsed_url, fs)
     ELSE Outcome("NotImplementedError", NoExporter, fs)

\* __init__ without the test for the empty string of line 85.
OpenTelemetryMixin_init_EmptyIsUrl(tracing_collector_url, fs) ==
  LET url == tracing_collector_url
      r == IF url.is_none THEN Outcome("", NoExporter, fs)
           ELSE TraceExporter_get_trace_exporter(url.value, fs)
  IN [agent |-> [state |-> IF r.raised = "" THEN "running" ELSE "failed",
                 settings |-> tracing_collector_url,
                 tracing_collector_url |-> url,
                 exporter |-> r.exporter,
                 error |-> r.raised],
      files |-> r.files]

\* OpenTelemetryMixin.__init__ (lines 76-98): the agent object when the
\* constructor returns, state "failed" with the exception when it raises.
OpenTelemetryMixin_init(tracing_collector_url, fs) ==
  LET url == IF ~tracing_collector_url.is_none /\ tracing_collector_url.value # <<>>
             THEN tracing_collector_url ELSE None
      r == IF url.is_none THEN Outcome("", NoExporter, fs)
           ELSE TraceExporter_get_trace_exporter(url.value, fs)
  IN [agent |-> [state |-> IF r.raised = "" THEN "running" ELSE "failed",
                 settings |-> tracing_collector_url,
                 tracing_collector_url |-> url,
                 exporter |-> r.exporter,
                 error |-> r.raised],
      files |-> r.files]

\* The tracing_collector_url settings that agents are started with.
Urls ==
  {None, Str(<<>>),
   Str(<<"jaeger", ":", "jaeger-host", ":", "8631">>),
   Str(<<"jaeger", ":", "/", "/", "jaeger-host", ":", "8631">>),
   Str(<<"jaeger", ":", "/", "/", "jaeger-host", ":", "trace">>),
   Str(<<"file", ":", "/", "trace">>),
   Str(<<"file", ":", "/", "ro">>),
   Str(<<"FILE", ":", "/", "/", "/", "ro">>),
   Str(<<"zipkin", ":", "jaeger-host", ":", "8631">>),
   Str(<<"8631", ":", "trace">>),
   Str(<<"jaeger-host">>)}

\* The agent process starts: the agent object is constructed.
AgentStart ==
  /\ agent.state = "none"
  /\ \E tracing_collector_url \in Urls :
       LET r == OpenTelemetryMixin_init(tracing_collector_url, files) IN
       /\ agent' = r.agent
       /\ files' = r.files
  /\ UNCHANGED <<spans, threads, messages>>
  /\ UNCHANGED apiVars

\* Tracing is configured (the test of lines 115 and 137).
Tracing(a) == ~a.tracing_collector_url.is_none

\* The current span with one context for the whole process: the span opened
\* last that is still open.
CurrentSpan_ProcessWide(sps, ths, t) ==
  IF \E i \in DOMAIN sps : sps[i].open
  THEN Max({i \in DOMAIN sps : sps[i].open})
  ELSE 0

\* The current span of the calling thread: opentelemetry keeps it in the
\* context of the thread, 0 when the context holds none.
CurrentSpan(sps, ths, t) == ths[t].context

\* tracer.start_as_current_span(name) entered (lines 117, 138): a new span,
\* child of the current span of the thread.
StartSpan(sps, ths, t, name, msg) ==
  Append(sps, [name |-> name, msg |-> msg, parent |-> CurrentSpan(sps, ths, t),
               attributes |-> {}, exception |-> FALSE, open |-> TRUE])

\* span.set_attribute for the two attributes (lines 119-120, 141-142).
SetAttributes(sps, id) ==
  [sps EXCEPT ![id].attributes = @ \cup {"agent.name", "message.selector"}]

\* The with block is left: an exception that leaves it is recorded on the
\* span, then the span is ended.
EndSpan(sps, id, raised) ==
  [sps EXCEPT ![id].exception = raised, ![id].open = FALSE]

\* SimpleSpanProcessor.on_end (line 96): the ended span goes to the exporter;
\* the file exporter writes it at the end of its file.
Export(fs, exporter, id) ==
  IF exporter.kind = "file"
  THEN [fs EXCEPT ![exporter.file] = Append(@, id)]
  ELSE fs

\* process_message, lines 115-118 and 122, up to the call of the handler.
\* Message m is the m-th message that reaches the agent.
ProcessMessage(t, m) ==
  /\ agent.state = "running"
  /\ threads[t].msg = 0
  /\ messages[m].state = "queued"
  /\ \A earlier \in 1..(m - 1) : messages[earlier].state # "queued"
  /\ messages' = [messages EXCEPT ![m].state = "handling",
                                  ![m].handler_calls = @ + 1]
  /\ IF Tracing(agent)
     THEN /\ spans' = StartSpan(spans, threads, t, "process_message", m)
          /\ threads' = [threads EXCEPT ![t] = [msg |-> m, context |-> Len(spans')]]
     ELSE /\ spans' = spans
          /\ threads' = [threads EXCEPT ![t].msg = m]
  /\ UNCHANGED <<agent, files>>
  /\ UNCHANGED apiVars

\* emit, lines 137-144, called by the handler of message m on thread t: the
\* publish of the base class runs inside an emit_message span when tracing is
\* configured.  publishes counts the calls of super().emit, raised tells
\* whether emit raised to the handler.
OpenTelemetryMixin_emit(a, sps, ths, fs, t, m, publish_raises) ==
  IF Tracing(a)
  THEN LET started == StartSpan(sps, ths, t, "emit_message", m)
           emit_span == Len(started)
           published == IF publish_raises THEN started
                        ELSE SetAttributes(started, emit_span)
       IN [spans |-> EndSpan(published, emit_span, publish_raises),
           files |-> Export(fs, a.exporter, emit_span),
           publishes |-> 1, raised |-> publish_raises]
  ELSE [spans |-> sps, files |-> fs, publishes |-> 1, raised |-> publish_raises]

\* The emit calls made so far for the messages 1..m.
RECURSIVE EmitCalls(_)
EmitCalls(m) == IF m = 0 THEN 0 ELSE messages[m].emit_calls + EmitCalls(m - 1)

Emit(t, publish_raises) ==
  LET m == threads[t].msg IN
  /\ m # 0
  /\ EmitCalls(MaxMessages) < MaxEmits
  /\ LET r == OpenTelemetryMixin_emit(agent, spans, threads, files, t, m,
                                      publish_raises) IN
     /\ spans' = r.spans
     /\ files' = r.files
     /\ messages' = [messages EXCEPT
       ![m].emit_calls = @ + 1,
       ![m].publishes = @ + r.publishes,
       ![m].publish_raised = @ + (IF publish_raises THEN 1 ELSE 0),
       ![m].emit_raised = @ + (IF r.raised THEN 1 ELSE 0)]
  /\ UNCHANGED <<agent, threads>>
  /\ UNCHANGED apiVars

\* process_message whose span stays open when the handler raises.
OpenTelemetryMixin_process_message_LeaveOpen(a, sps, fs, process_msg_span, handler_raises) ==
  [spans |-> IF Tracing(a) /\ ~handler_raises
             THEN EndSpan(SetAttributes(sps, process_msg_span), process_msg_span, FALSE)
             ELSE sps,
   files |-> fs, raised |-> handler_raises]

\* process_message, lines 118-122, from the end of the handler: when it
\* returned the attributes are set; the span is ended either way and what the
\* handler raised leaves process_message.
OpenTelemetryMixin_process_message(a, sps, fs, process_msg_span, handler_raises) ==
  IF Tracing(a)
  THEN [spans |-> EndSpan(IF handler_raises THEN sps
                          ELSE SetAttributes(sps, process_msg_span),
                          process_msg_span, handler_raises),
        files |-> Export(fs, a.exporter, process_msg_span),
        raised |-> handler_raises]
  ELSE [spans |-> sps, files |-> fs, raised |-> handler_raises]

HandlerEnds(t, handler_raises) ==
  LET m == threads[t].msg
      process_msg_span == threads[t].context
  IN
  /\ m # 0
  /\ LET r == OpenTelemetryMixin_process_message(agent, spans, files,
                                                 process_msg_span, handler_raises) IN
     /\ spans' = r.spans
     /\ files' = r.files
     /\ messages' = [messages EXCEPT ![m].state = "done",
                                     ![m].handler_raised = handler_raises,
                                     ![m].raised = r.raised]
  /\ threads' = [threads EXCEPT ![t] =
       [msg |-> 0,
        context |-> IF Tracing(agent) THEN spans[process_msg_span].parent ELSE 0]]
  /\ UNCHANGED agent
  /\ UNCHANGED apiVars

\* The trace file may hold the spans (written as 0) of an earlier agent
\* process.
InitTrace ==
  /\ scans = [i \in ScanIds |-> NoScan]
  /\ assets = AssetIds
  /\ asset_scan_id = [a \in AssetIds |-> 0]
  /\ vulnerabilities = <<>>
  /\ resp = NoResp
  /\ asset_type = StoredTypes(assets)
  /\ scan_statuses = <<>>
  /\ agent = [state |-> "none", settings |-> None, tracing_collector_url |-> None,
              exporter |-> NoExporter, error |-> ""]
  /\ files \in {[path \in Paths |-> earlier] : earlier \in {<<>>, <<0>>}}
  /\ spans = <<>>
  /\ threads = [t \in Threads |-> [msg |-> 0, context |-> 0]]
  /\ messages = [m \in Messages |-> NoMessage]

MessageDelivered == \E t \in Threads, m \in Messages : ProcessMessage(t, m)

HandlerEmits == \E t \in Threads, publish_raises \in BOOLEAN : Emit(t, publish_raises)

HandlerReturns == \E t \in Threads : HandlerEnds(t, FALSE)

HandlerRaises == \E t \in Threads : HandlerEnds(t, TRUE)

NextTrace ==
  AgentStart \/ MessageDelivered \/ HandlerEmits \/ HandlerReturns \/ HandlerRaises

SpecTrace == InitTrace /\ [][NextTrace]_vars

\* The process_message spans of a message.
ProcessSpans(m) ==
  {i \in DOMAIN spans : spans[i].name = "process_message" /\ spans[i].msg = m}

\* The emit_message spans of a message.
EmitSpans(m) ==
  {i \in DOMAIN spans : spans[i].name = "emit_message" /\ spans[i].msg = m}

\* The agent was started with no tracing url or with the empty one.
StartedWithoutUrl ==
  /\ agent.state # "none"
  /\ agent.settings.is_none \/ agent.settings.value = <<>>

\* C12: with the tracing url None or empty, tracing is off: the agent starts,
\* every process_message call runs the handler once and every emit call runs
\* the publish once, no span is created, and the calls raise exactly what the
\* handler or the publish raised.
C12_NoUrlDisablesTracing ==
  StartedWithoutUrl =>
    /\ agent.state = "running"
    /\ spans = <<>>
    /\ \A m \in Messages :
         /\ messages[m].state # "queued" => messages[m].handler_calls = 1
         /\ messages[m].state = "done" =>
              messages[m].raised = messages[m].handler_raised
         /\ messages[m].publishes = messages[m].emit_calls
         /\ messages[m].emit_raised = messages[m].publish_raised

\* An agent started with the empty url has handled a message whose handler
\* emitted and raised.
C12_Witness ==
  /\ StartedWithoutUrl
  /\ ~agent.settings.is_none
  /\ \E m \in Messages :
       /\ messages[m].state = "done"
       /\ messages[m].handler_raised
       /\ messages[m].emit_calls = 1
  /\ spans = <<>>

\* C13: with tracing configured, a process_message call opens one
\* process_message span, runs the handler once inside it, and ends the span
\* when the handler returns and when it raises; the error is then recorded on
\* the span and still reaches the caller.  No span is open once the call is
\* over.
C13_ProcessSpanOpenedAndClosed ==
  (agent.state = "running" /\ Tracing(agent)) =>
    /\ \A m \in Messages :
         /\ messages[m].state = "queued" => ProcessSpans(m) = {}
         /\ messages[m].state # "queued" =>
              /\ Cardinality(ProcessSpans(m)) = 1
              /\ messages[m].handler_calls = 1
         /\ messages[m].state = "handling" =>
              \A i \in ProcessSpans(m) : spans[i].open
         /\ messages[m].state = "done" =>
              /\ \A i \in ProcessSpans(m) \cup EmitSpans(m) : ~spans[i].open
              /\ \A i \in ProcessSpans(m) :
                   spans[i].exception = messages[m].handler_raised
              /\ messages[m].raised = messages[m].handler_raised

\* The handler of a traced message raised: its span is ended with the error
\* on it and the caller got the error.
C13_Witness ==
  /\ agent.state = "running"
  /\ Tracing(agent)
  /\ \E m \in Messages :
       /\ messages[m].state = "done"
       /\ messages[m].handler_raised
       /\ messages[m].raised
       /\ \E i \in ProcessSpans(m) : ~spans[i].open /\ spans[i].exception

\* C14: with tracing configured, every ended process_message span and every
\* ended emit_message span has the attributes agent.name and message.selector,
\* those of calls whose handler or publish raised included.
C14_EndedSpansCarryAttributes ==
  \A i \in DOMAIN spans :
    ~spans[i].open => {"agent.name", "message.selector"} \subseteq spans[i].attributes

\* The url file:<path>.
FileUrl(path) == Str(<<"file", ":">> \o path)

\* C15: an exporter failure, such as a file exporter whose path cannot be
\* opened for writing, does not abort message processing: the agent still
\* starts (and then runs its handlers).
C15_ExporterFailureDoesNotAbort ==
  \A path \in Paths \ Writable :
    (agent.state # "none" /\ agent.settings = FileUrl(path)) =>
      agent.state = "running"

\* The exporter kind of a configuration string: the text before its first
\* ":", none without a ":".
ClaimedKind(tokens) ==
  IF Len(tokens) >= 2 /\ tokens[1] \notin Separators /\ tokens[2] = ":"
  THEN tokens[1] ELSE ""

\* The agent was started with a string that is not empty and whose kind is
\* neither jaeger nor file, in any case of the letters.
StartedWithUnknownKind ==
  /\ agent.state # "none"
  /\ ~agent.settings.is_none
  /\ agent.settings.value # <<>>
  /\ LET kind == ClaimedKind(agent.settings.value) IN
     ~(kind \in DOMAIN str_lower /\ str_lower[kind] \in {"jaeger", "file"})

\* C16: a configuration string that is not empty and whose exporter kind is
\* neither jaeger nor file makes the construction of the agent fail with an
\* error, before any message is processed; it is never accepted.
C16_UnknownKindFailsAtStartup ==
  StartedWithUnknownKind =>
    /\ agent.state = "failed"
    /\ agent.error # ""
    /\ spans = <<>>
    /\ \A m \in Messages : messages[m].state = "queued"

C16_Witness ==
  /\ StartedWithUnknownKind
  /\ ClaimedKind(agent.settings.value) = "zipkin"
  /\ agent.state = "failed"
  /\ agent.error = "NotImplementedError"

\* The host and port words that configuration strings are written with.
HostWords == {"jaeger-host"}

PortValue == ("8631" :> 8631)

\* C17: a configuration string jaeger:<host>:<port> is recognized and gives a
\* jaeger exporter with that agent host and the integer port.
C17_JaegerHostPortRecognized ==
  \A host \in HostWords, port \in DOMAIN PortValue :
    (agent.state # "none"
       /\ agent.settings = Str(<<"jaeger", ":", host, ":", port>>)) =>
      /\ agent.state = "running"
      /\ agent.exporter.kind = "jaeger"
      /\ agent.exporter.agent_host_name = <<host>>
      /\ agent.exporter.agent_port = PortValue[port]

IsPrefix(s, t) == Len(s) <= Len(t) /\ SubSeq(t, 1, Len(s)) = s

\* C18: the file exporter only appends: whatever a file holds stays in place
\* in every step, the start of an agent on that path included, and spans are
\* added after it.
C18_FileExporterAppendsOnly ==
  [][\A path \in Paths : IsPrefix(files[path], files'[path])]_vars

\* C19: each inbound message has its own span tree under every interleaving
\* of the worker threads: a span's parent is a span of the same message, a
\* process_message span has no parent, and the parent of an emit_message span
\* made while a message is handled is the process_message span of that
\* message.
C19_OneSpanTreePerMessage ==
  \A i \in DOMAIN spans :
    /\ spans[i].parent # 0 => spans[spans[i].parent].msg = spans[i].msg
    /\ spans[i].name = "process_message" => spans[i].parent = 0
    /\ spans[i].name = "emit_message" => spans[i].parent \in ProcessSpans(spans[i].msg)

\* Two messages are handled at the same time and the handler of the one whose
\* span was opened first has emitted after the span of the other was opened.
C19_Witness ==
  /\ \A t \in {1, 2} : threads[t].msg # 0
  /\ \E i, j, k \in DOMAIN spans :
       /\ i < j /\ j < k
       /\ spans[i].name = "process_message" /\ spans[i].open
       /\ spans[j].name = "process_message" /\ spans[j].open
       /\ spans[i].msg # spans[j].msg
       /\ spans[k].name = "emit_message"
       /\ spans[k].msg = spans[i].msg
       /\ spans[k].parent = i

\* C20: a stopScan for an id without a scan record fails with "Scan not
\* found.", makes no call to the runtime's stop and changes no scan record.
C20_StopUnknownScanFails ==
  [][(resp'.op = "stopScan" /\ resp.op = "none"
        /\ resp'.scan_id \notin Existing(scans))
       => /\ resp'.error = "Scan not found."
          /\ resp'.result = "error"
          /\ resp'.calls = <<>>
          /\ scans' = scans]_vars

\* A stopScan for an id without a record, while another scan is IN_PROGRESS.
C20_Witness ==
  /\ resp.op = "stopScan"
  /\ resp.scan_id \notin Existing(scans)
  /\ resp.error = "Scan not found."
  /\ resp.calls = <<>>
  /\ \E id \in ScanIds : scans[id] = "IN_PROGRESS"

\* C21: a stopScan changes the scan it names only: every other scan keeps its
\* state and no scan record is created or deleted.
C21_StopChangesOnlyItsScan ==
  [][(resp'.op = "stopScan" /\ resp.op = "none")
       => /\ \A id \in DOMAIN scans :
               id # resp'.scan_id => scans'[id] = scans[id]
          /\ Existing(scans') = Existing(scans)]_vars

\* One of two scans IN_PROGRESS was stopped, the other still runs.
C21_Witness ==
  /\ resp.op = "stopScan"
  /\ resp.error = ""
  /\ resp.loaded = "IN_PROGRESS"
  /\ scans[resp.scan_id] = "STOPPED"
  /\ \E id \in ScanIds \ {resp.scan_id} : scans[id] = "IN_PROGRESS"

\* =============================================================== deleteScan
\* The runtime records a status of a scan: a row is added to the ScanStatus
\* table (spec 4.6, status records of a scan).
AddScanStatus(scan_id, key) ==
  /\ Len(scan_statuses) < MaxStatuses
  /\ scan_statuses' = Append(scan_statuses, [scan_id |-> scan_id, key |-> key])
  /\ UNCHANGED <<scans, assets, asset_scan_id, vulnerabilities, resp, asset_type>>
  /\ UNCHANGED tracingVars

InitDelete ==
  /\ NoAgent
  /\ scans = [i \in ScanIds |-> IF i \in StoredScans THEN "IN_PROGRESS" ELSE NoScan]
  /\ assets = {}
  /\ asset_scan_id = [a \in AssetIds |-> 0]
  /\ vulnerabilities = <<>>
  /\ resp = NoResp
  /\ asset_type = StoredTypes(assets)
  /\ scan_statuses = <<>>

ScanStatusReported ==
  /\ resp.op = "none"
  /\ \E scan_id \in Existing(scans) : AddScanStatus(scan_id, "progress")

\* An agent reports a vulnerability; deleteScan selects rows by scan_id only,
\* so one rating stands for all.
VulnerabilityFound ==
  /\ resp.op = "none"
  /\ \E scan_id \in Existing(scans) : AddVulnerability(scan_id, "HIGH")

NextDelete ==
  DeleteScanRequest \/ ScanStatusReported \/ VulnerabilityFound \/ Reply

SpecDelete == InitDelete /\ [][NextDelete]_vars

\* The request of this step is a deleteScan.
DeleteScanStep == resp.op = "none" /\ resp'.op = "deleteScan"

\* C25: after a deleteScan that succeeds, the scan record is gone and no
\* vulnerability row and no scan status row of that scan is left; the rows of
\* the other scans are as they were.
C25_DeleteRemovesScanAndItsRows ==
  [][(DeleteScanStep /\ resp'.error = "") =>
       LET id == resp'.scan_id IN
       /\ id \in Existing(scans)
       /\ id \notin Existing(scans')
       /\ \A i \in DOMAIN vulnerabilities' : vulnerabilities'[i].scan_id # id
       /\ \A i \in DOMAIN scan_statuses' : scan_statuses'[i].scan_id # id
       /\ \A other \in DOMAIN scans : other # id => scans'[other] = scans[other]
       /\ vulnerabilities' =
            SelectSeq(vulnerabilities, LAMBDA row : row.scan_id # id)
       /\ scan_statuses' =
            SelectSeq(scan_statuses, LAMBDA row : row.scan_id # id)]_vars

\* A scan was deleted with a vulnerability row and a status row of its own,
\* and the other scan still has its rows.
C25_Witness ==
  /\ resp.op = "deleteScan"
  /\ resp.error = ""
  /\ resp.deleted >= 3
  /\ \E other \in Existing(scans) :
       /\ \E i \in DOMAIN vulnerabilities : vulnerabilities[i].scan_id = other
       /\ \E i \in DOMAIN scan_statuses : scan_statuses[i].scan_id = other

\* C26: a deleteScan for an id without a scan record, an id deleted before
\* included, fails with "Scan not found." and removes no row of any table.
C26_DeleteUnknownScanFails ==
  [][(DeleteScanStep /\ resp'.scan_id \notin Existing(scans)) =>
       /\ resp'.error = "Scan not found."
       /\ resp'.result = "error"
       /\ scans' = scans
       /\ vulnerabilities' = vulnerabilities
       /\ scan_statuses' = scan_statuses]_vars

\* A deleteScan for the id of a scan that an earlier deleteScan removed, while
\* the other scan has rows.
C26_Witness ==
  /\ resp.op = "deleteScan"
  /\ resp.error = "Scan not found."
  /\ resp.scan_id \in StoredScans
  /\ resp.deleted = 0
  /\ vulnerabilities # <<>>
  /\ scan_statuses # <<>>

\* The request of this step is a runScan.
RunScanStep == resp.op = "none" /\ resp'.op = "runScan"

\* C22: runScan checks its input before it calls the runtime: an unknown
\* agent group fails with "Agent group not found.", otherwise asset ids of
\* which none is stored fail with "Assets not found."; in both cases the
\* runtime is not called, no asset is linked and no scan is created.
C22_InputCheckedBeforeRuntime ==
  [][RunScanStep =>
       LET unknown_group == resp'.agent_group_id \notin DOMAIN AgentGroup
           no_asset == Range(resp'.asset_ids) \cap assets = {}
       IN
       /\ unknown_group => resp'.error = "Agent group not found."
       /\ (~unknown_group /\ no_asset) => resp'.error = "Assets not found."
       /\ (unknown_group \/ no_asset) =>
            /\ resp'.calls = <<>>
            /\ resp'.result = "error"
            /\ asset_scan_id' = asset_scan_id
            /\ scans' = scans]_vars

\* A request with an unknown agent group and no stored asset, made when an
\* asset is linked to a scan: the agent group is reported.
C22_Witness ==
  /\ resp.op = "runScan"
  /\ resp.agent_group_id \notin DOMAIN AgentGroup
  /\ resp.asset_ids # <<>>
  /\ Range(resp.asset_ids) \cap assets = {}
  /\ resp.error = "Agent group not found."
  /\ resp.calls = <<>>
  /\ \E a \in assets : asset_scan_id[a] # 0

\* The list without the later occurrences of its elements.
RECURSIVE Dedupe(_)
Dedupe(ids) ==
  IF ids = <<>> THEN <<>>
  ELSE LET front == Dedupe(SubSeq(ids, 1, Len(ids) - 1))
           last == ids[Len(ids)]
       IN IF last \in Range(front) THEN front ELSE Append(front, last)

\* The last request was a runScan that called the runtime's scan.
ScanCalled ==
  /\ resp.op = "runScan"
  /\ \E i \in DOMAIN resp.calls : resp.calls[i][1] = "scan"

\* C23: an asset id given more than once in a runScan request does not
\* duplicate scan work: the assets handed to the runtime's scan are those of
\* the request without the duplicates, none of them twice.
C23_DuplicateAssetIdsCollapse ==
  ScanCalled =>
    /\ resp.scan_assets =
         RunScanMutation_prepare_assets(Dedupe(resp.asset_ids), assets).scan_assets
    /\ \A i, j \in DOMAIN resp.scan_assets :
         resp.scan_assets[i] = resp.scan_assets[j] => i = j

\* A scan of a request that names the same stored asset twice.
C23_Witness ==
  /\ ScanCalled
  /\ Len(resp.asset_ids) = 2
  /\ resp.asset_ids[1] = resp.asset_ids[2]
  /\ resp.asset_ids[1] \in assets
  /\ resp.scan_assets = ScanAssetsOf(resp.asset_ids[1])

\* This step is a runScan that returned a scan to its caller.
RunScanSucceeds == RunScanStep /\ resp'.result = "scan"

\* C24: after a runScan that succeeds, every stored asset whose id is in the
\* request is linked to the scan that the runtime created, and that scan is
\* the one returned to the caller.
C24_AssetsLinkedToCreatedScan ==
  [][RunScanSucceeds =>
       /\ Existing(scans') \ Existing(scans) = {resp'.scan}
       /\ \A a \in assets :
            a \in Range(resp'.asset_ids) => asset_scan_id'[a] = resp'.scan]_vars

\* A scan was created for a request that names every stored asset and an
\* id that is not stored; the stored ones are linked to it.
C24_Witness ==
  /\ resp.op = "runScan"
  /\ resp.result = "scan"
  /\ scans[resp.scan] = "IN_PROGRESS"
  /\ \E a \in assets, b \in Range(resp.asset_ids) :
       /\ b \notin assets
       /\ a \in Range(resp.asset_ids)
       /\ asset_scan_id[a] = resp.scan

\* This step is a runScan whose call of the runtime's scan failed with a
\* runtime error.
RunScanFailsInScan ==
  /\ RunScanStep
  /\ resp'.env.scan = "OstorlabError"
  /\ \E i \in DOMAIN resp'.calls : resp'.calls[i][1] = "scan"

\* C28: when the runtime's scan fails with a runtime error, the caller of
\* runScan gets an error, the request links no asset to any scan and leaves
\* no scan IN_PROGRESS that was not so before.
C28_ScanFailureLeavesNothingRunning ==
  [][RunScanFailsInScan =>
       /\ resp'.error = "Runtime encountered an error to run scan"
       /\ resp'.result = "error"
       /\ asset_scan_id' = asset_scan_id
       /\ \A id \in DOMAIN scans :
            scans'[id] = "IN_PROGRESS" => scans[id] = "IN_PROGRESS"]_vars

\* The scan call of a request failed after an earlier request had linked an
\* asset to its scan; the failed request named that asset.
C28_Witness ==
  /\ resp.op = "runScan"
  /\ resp.env.scan = "OstorlabError"
  /\ resp.error = "Runtime encountered an error to run scan"
  /\ \E i \in DOMAIN resp.calls : resp.calls[i][1] = "scan"
  /\ \E a \in assets :
       /\ a \in Range(resp.asset_ids)
       /\ asset_scan_id[a] # 0
       /\ scans[asset_scan_id[a]] = "IN_PROGRESS"
  /\ \E id \in ScanIds : scans[id] = "ERROR"

\* C30: an asset is linked to one scan at most, the one created by the last
\* runScan that succeeded and named it: such a runScan moves every stored
\* asset it names to its scan, whatever scan held it before, and changes the
\* link of no other asset.
C30_AssetFollowsLatestScan ==
  [][RunScanSucceeds =>
       \A a \in assets :
         /\ asset_scan_id'[a] =
              IF a \in Range(resp'.asset_ids) THEN resp'.scan
              ELSE asset_scan_id[a]
         /\ asset_scan_id'[a] \in {0} \cup Existing(scans')]_vars

\* A second scan took every asset of the first: the first scan still runs and
\* has no asset.
C30_Witness ==
  /\ resp.op = "runScan"
  /\ resp.result = "scan"
  /\ resp.scan = 2
  /\ scans[1] = "IN_PROGRESS"
  /\ \A a \in assets : asset_scan_id[a] # 1
  /\ \E a \in assets : asset_scan_id[a] = 2

\* ============================================================= createAssets
\* The six targets of an OxoAssetInputType, in the order in which _validate
\* and mutate test them.  An asset input is the set of its targets that are
\* not None.
Targets == <<"android_store", "android_file", "ios_store", "ios_file", "link", "ip">>

\* Asset.type of the row that mutate creates for a target (lines 310-353).
CreatedType ==
  ("android_store" :> "android_store") @@ ("android_file" :> "android_file")
    @@ ("ios_store" :> "ios_store") @@ ("ios_file" :> "ios_file")
    @@ ("link" :> "urls") @@ ("ip" :> "network")

\* _validate that accepts an input with two targets.
CreateAssetsMutation_validate_AllowTwo(asset) ==
  LET targets == SelectSeq(Targets, LAMBDA t : t \in asset) IN
  IF Len(targets) = 0 THEN "input is missing target."
  ELSE IF Len(targets) > 2 THEN "Single target input must be defined for asset"
  ELSE ""

\* CreateAssetsMutation._validate (lines 361-383): the error message, "" for
\* None.
CreateAssetsMutation_validate(asset) ==
  LET targets == SelectSeq(Targets, LAMBDA t : t \in asset) IN
  IF Len(targets) = 0 THEN "input is missing target."
  ELSE IF Len(targets) >= 2 THEN "Single target input must be defined for asset"
  ELSE ""

\* The rows created for the targets of one input from the i-th target on
\* (the if statements of lines 310-353), added to the tables of acc.
RECURSIVE CreateForTargets(_, _, _)
CreateForTargets(asset, i, acc) ==
  IF i > Len(Targets) THEN acc
  ELSE IF Targets[i] \notin asset THEN CreateForTargets(asset, i + 1, acc)
  ELSE LET id == IF acc.assets = {} THEN 1 ELSE Max(acc.assets) + 1 IN
       CreateForTargets(asset, i + 1,
         [acc EXCEPT !.assets = @ \cup {id},
                     !.asset_type = [a \in DOMAIN @ |->
                                       IF a = id THEN CreatedType[Targets[i]]
                                       ELSE @[a]],
                     !.created = Append(@, id)])

\* The loop of lines 305-353 from the i-th input on.
RECURSIVE CreateEachAsset(_, _, _)
CreateEachAsset(inputs, i, acc) ==
  IF i > Len(inputs) THEN acc
  ELSE LET error_message == CreateAssetsMutation_validate(inputs[i]) IN
       IF error_message # ""
       THEN CreateEachAsset(inputs, i + 1,
                            [acc EXCEPT !.errors = Append(@, error_message)])
       ELSE CreateEachAsset(inputs, i + 1, CreateForTargets(inputs[i], 1, acc))

\* createAssets that stores nothing when an input is invalid.
CreateAssetsMutation_mutate_AllOrNothing(inputs, db) ==
  LET done == CreateEachAsset(inputs, 1,
                [assets |-> db.assets, asset_type |-> db.asset_type,
                 created |-> <<>>, errors |-> <<>>])
  IN IF Len(done.errors) > 0
     THEN [error |-> "Invalid assets", result |-> "error", errors |-> done.errors,
           created |-> <<>>, assets |-> db.assets, asset_type |-> db.asset_type]
     ELSE [error |-> "", result |-> "assets", errors |-> <<>>,
           created |-> done.created, assets |-> done.assets,
           asset_type |-> done.asset_type]

\* CreateAssetsMutation.mutate (lines 298-359): every input is validated and,
\* when valid, stored at once; the error is raised after the loop.
CreateAssetsMutation_mutate(inputs, db) ==
  LET done == CreateEachAsset(inputs, 1,
                [assets |-> db.assets, asset_type |-> db.asset_type,
                 created |-> <<>>, errors |-> <<>>])
  IN IF Len(done.errors) > 0
     THEN [error |-> "Invalid assets", result |-> "error", errors |-> done.errors,
           created |-> done.created, assets |-> done.assets,
           asset_type |-> done.asset_type]
     ELSE [error |-> "", result |-> "assets", errors |-> <<>>,
           created |-> done.created, assets |-> done.assets,
           asset_type |-> done.asset_type]

CreateAssets(inputs) ==
  LET r == CreateAssetsMutation_mutate(
             inputs, [assets |-> assets, asset_type |-> asset_type])
  IN
  /\ assets' = r.assets
  /\ asset_type' = r.asset_type
  /\ resp' = [NoResp EXCEPT !.op = "createAssets", !.inputs = inputs,
                            !.error = r.error, !.result = r.result,
                            !.errors = r.errors, !.created = r.created]
  /\ UNCHANGED <<scans, asset_scan_id, vulnerabilities, scan_statuses>>
  /\ UNCHANGED tracingVars

\* The asset inputs of the requests: no target, one, two, or all six.
AssetInputs ==
  {asset \in SUBSET Range(Targets) :
     Cardinality(asset) <= 2 \/ asset = Range(Targets)}

\* An empty Asset table.
InitAssets ==
  /\ NoAgent
  /\ scans = [i \in ScanIds |-> NoScan]
  /\ assets = {}
  /\ asset_scan_id = [a \in AssetIds |-> 0]
  /\ vulnerabilities = <<>>
  /\ resp = NoResp
  /\ asset_type = StoredTypes(assets)
  /\ scan_statuses = <<>>

CreateAssetsRequest ==
  /\ resp.op = "none"
  \* the Asset table has room for the rows of the request
  /\ Cardinality(assets) < MaxAssets
  /\ \E inputs \in SeqsUpTo(AssetInputs, MaxInputs) :
       /\ Cardinality(assets)
            + Cardinality({i \in DOMAIN inputs : Cardinality(inputs[i]) = 1})
            <= MaxAssets
       /\ CreateAssets(inputs)

NextAssets == CreateAssetsRequest \/ Reply

SpecAssets == InitAssets /\ [][NextAssets]_vars

\* The message that the claim gives for an input, "" for an accepted one.
ClaimedMessage(asset) ==
  IF Cardinality(asset) = 0 THEN "input is missing target."
  ELSE IF Cardinality(asset) >= 2
  THEN "Single target input must be defined for asset"
  ELSE ""

\* The messages of the invalid inputs of a request, in the order of the inputs.
RECURSIVE ClaimedMessages(_)
ClaimedMessages(inputs) ==
  IF inputs = <<>> THEN <<>>
  ELSE IF ClaimedMessage(Head(inputs)) = "" THEN ClaimedMessages(Tail(inputs))
  ELSE <<ClaimedMessage(Head(inputs))>> \o ClaimedMessages(Tail(inputs))

\* C27: createAssets accepts an input only when exactly one of its six
\* targets is set: an input without target gives the message "... input is
\* missing target.", one with two targets or more "Single target input must be
\* defined for asset ...", and a request with an invalid input fails with an
\* error that starts "Invalid assets:" and holds these messages.
C27_ExactlyOneTargetAccepted ==
  resp.op = "createAssets" =>
    /\ resp.errors = ClaimedMessages(resp.inputs)
    /\ (resp.error = "Invalid assets") <=> (ClaimedMessages(resp.inputs) # <<>>)
    /\ (resp.error = "") <=> (ClaimedMessages(resp.inputs) = <<>>)
    /\ (resp.result = "assets") <=> (resp.error = "")
    /\ Len(Targets) = 6

\* A request with an input without target and an input with two targets.
C27_Witness ==
  /\ resp.op = "createAssets"
  /\ Len(resp.inputs) = 2
  /\ resp.inputs[1] = {}
  /\ Cardinality(resp.inputs[2]) = 2
  /\ resp.error = "Invalid assets"
  /\ resp.errors = <<"input is missing target.",
                     "Single target input must be defined for asset">>

\* This step is a createAssets.
CreateAssetsStep == resp.op = "none" /\ resp'.op = "createAssets"

\* The inputs of a request that have exactly one target.
ValidInputs(inputs) == {i \in DOMAIN inputs : Cardinality(inputs[i]) = 1}

\* C29: createAssets is not all-or-nothing: every input is processed, the
\* record of each valid input is created and stays stored also when another
\* input of the request is invalid and the call fails, and as many records
\* are created as there are valid inputs.
C29_ValidInputsStoredDespiteInvalid ==
  [][CreateAssetsStep =>
       LET valid == ValidInputs(resp'.inputs) IN
       /\ Len(resp'.created) = Cardinality(valid)
       /\ Len(resp'.errors) = Len(resp'.inputs) - Cardinality(valid)
       /\ assets' = assets \cup Range(resp'.created)
       /\ Cardinality(assets') = Cardinality(assets) + Cardinality(valid)
       /\ \A a \in assets : asset_type'[a] = asset_type[a]]_vars

\* A request whose first input is invalid and whose second is valid failed,
\* and the row of the second is stored.
C29_Witness ==
  /\ resp.op = "createAssets"
  /\ Len(resp.inputs) = 2
  /\ Cardinality(resp.inputs[1]) # 1
  /\ resp.inputs[2] = {"ip"}
  /\ resp.error = "Invalid assets"
  /\ Len(resp.created) = 1
  /\ resp.created[1] \in assets
  /\ asset_type[resp.created[1]] = "network"

====
